---------------------------- MODULE Spec2Model ----------------------------
(***************************************************************************)
(* One-time-pad client/server pair: enc_server.c (the "enc" service) and   *)
(* dec_client.c (the "dec" client).                                         *)
(*                                                                         *)
(* Four specifications share this module:                                  *)
(*   SpecCipher  the encryption loop of handleOtpComm on bounded inputs    *)
(*   SpecFrame   one sendData() feeding one receive() over a byte stream   *)
(*               whose send()/recv() may transfer fewer bytes than asked   *)
(*   Spec        listener, forked workers and clients, one connection per  *)
(*               client, every send()/recv() either whole or failing       *)
(*   SpecConn    one connection call by call over a reliable byte stream   *)
(*               with finite socket buffers, under fair scheduling         *)
(* Characters are their ASCII codes, C strings are sequences of non-zero   *)
(* bytes.                                                                  *)
(***************************************************************************)
EXTENDS Integers, Sequences, FiniteSets, TLC

VARIABLES
    \* ---- SpecCipher: handleOtpComm's locals (enc_server.c:163-175)
    xText,      \* char* text
    xKey,       \* char* key
    xResult,    \* char* result, the bytes written so far
    xI,         \* loop index i
    xPc,        \* "loop" | "done" | "dec"
    xBack,      \* the result decrypted again with the key (after "dec")
    xDec,       \* the text decrypted with the key (after "dec")
    \* ---- SpecFrame: sendData (sender) and receive (receiver), one stream
    fData,      \* sendData's argument data
    fSPc,       \* sender: "prefix" | "loop" | "done" | "exit"
    fSI,        \* sendData's loop index i
    fSStatus,   \* sender's exit status, NoStatus while it runs
    fAccepted,  \* every byte the transport accepted from the sender, in order
    fStream,    \* bytes accepted and not yet delivered
    fClosed,    \* the sender's end of the socket is closed
    fRPc,       \* receiver: "prefix" | "alloc" | "loop" | "done" | "exit" | "crash"
    fRLen,      \* receive's int len
    fRBuf,      \* receive's buffer result[0..i-1]
    fRI,        \* receive's loop index i
    fRRead,     \* receive's charsRead of the last recv in the loop
    fRStatus,   \* receiver's exit status, NoStatus while it runs
    \* ---- Spec: the listener (enc_server.c main)
    lPc,        \* "args" | "socket" | "bind" | "listen" | "accept" | "fork" | "close" | "exit"
    lStatus,    \* exit status
    lErr,       \* which error() call ended it, "none" otherwise
    lSock,      \* int sock of the current loop iteration (0: none)
    listenOk,   \* listen() succeeded on listenSock
    pending,    \* connections completed by the kernel and not yet accepted
    \* ---- Spec: the clients (dec_client.c main and its enc twin), per connection
    cPc,        \* "args" | "load" | "check" | "socket" | "connect" | "vSend" | "vRecv"
                \* | "sendText" | "sendKey" | "recv" | "exit" | "spin" | "crash"
    cStatus, cErr,
    cTag,       \* validate's char client[4]
    cSrv,       \* validate's char server[4]
    cText, cKey,
    cOut,       \* what printf wrote
    cIo,        \* the successful send()/recv() calls of the client, in order
    \* ---- Spec: the workers (the forked children of enc_server), per connection
    wPc,        \* "none" | "vRecv" | "vSend" | "recvText" | "recvKey" | "transform"
                \* | "send" | "exit" | "spin" | "crash"
    wStatus, wErr,
    wCli,       \* validate's char client[4]
    wText, wKey, wResult,
    wIo,        \* the successful send()/recv() calls of the worker, in order
    \* ---- Spec: the sockets
    c2s, s2c,       \* bytes in flight, client to server and server to client
    holders,        \* server processes holding the connection socket open
    listenHolders,  \* processes holding the listening socket open
    closes,         \* close(sock) calls made, per connection and process
    \* ---- SpecConn: the two ends of one connection, "C" client and "W" worker
    nSplit,     \* the transport may hand over a send() in several pieces
    nTag,       \* the client's tag (which client program runs)
    nText, nKey,    \* the client's two strings
    nPc,        \* the call each end is in: "vSend" | "vRecv" | "sendText" | "sendKey"
                \* | "recv" | "recvText" | "recvKey" | "transform" | "send"
                \* | "exit" | "spin" | "crash"
    nSub,       \* where in sendData/receive: "prefix" | "alloc" | "loop"
    nStatus,    \* exit status, NoStatus while the process runs
    nLen,       \* int len of the sendData/receive call in progress
    nI,         \* its loop index i
    nBuf,       \* receive's result[0..i-1]
    nPeerTag,   \* the tag validate received
    nGot,       \* the strings receive() returned, in order
    nResult,    \* handleOtpComm's result
    nWire,      \* bytes sent towards each end and still in flight
    nInbox      \* bytes delivered to each end's socket and not yet read

cipherVars == <<xText, xKey, xResult, xI, xPc, xBack, xDec>>

senderVars == <<fData, fSPc, fSI, fSStatus, fAccepted, fClosed>>

receiverVars == <<fRPc, fRLen, fRBuf, fRI, fRRead, fRStatus>>

frameVars == <<senderVars, fStream, receiverVars>>

listenerVars == <<lPc, lStatus, lErr, lSock, listenOk, pending>>

clientVars == <<cPc, cStatus, cErr, cTag, cSrv, cText, cKey, cOut, cIo>>

workerVars == <<wPc, wStatus, wErr, wCli, wText, wKey, wResult, wIo>>

socketVars == <<c2s, s2c, holders, listenHolders, closes>>

protoVars == <<listenerVars, clientVars, workerVars, socketVars>>

connVars == <<nSplit, nTag, nText, nKey, nPc, nSub, nStatus, nLen, nI, nBuf,
              nPeerTag, nGot, nResult, nWire, nInbox>>

vars == <<cipherVars, frameVars, protoVars, connVars>>

\* the value of a status variable of a process that has not terminated
NoStatus == 0 - 1

\* what the parent's wait() reports for a child killed by SIGSEGV
KilledStatus == 128 + 11

\* the variables of a specification that another specification leaves alone
CipherIdle ==
    /\ xText = <<>> /\ xKey = <<>> /\ xResult = <<>> /\ xI = 0
    /\ xPc = "idle" /\ xBack = <<>> /\ xDec = <<>>

FrameIdle ==
    /\ fData = <<>> /\ fSPc = "idle" /\ fSI = 0 /\ fSStatus = NoStatus
    /\ fAccepted = <<>> /\ fStream = <<>> /\ fClosed = FALSE
    /\ fRPc = "idle" /\ fRLen = 0 /\ fRBuf = <<>> /\ fRI = 0 /\ fRRead = 0
    /\ fRStatus = NoStatus

ProtoIdle ==
    /\ lPc = "idle" /\ lStatus = NoStatus /\ lErr = "none" /\ lSock = 0
    /\ listenOk = FALSE /\ pending = <<>>
    /\ cPc = <<>> /\ cStatus = <<>> /\ cErr = <<>> /\ cTag = <<>> /\ cSrv = <<>>
    /\ cText = <<>> /\ cKey = <<>> /\ cOut = <<>> /\ cIo = <<>>
    /\ wPc = <<>> /\ wStatus = <<>> /\ wErr = <<>> /\ wCli = <<>>
    /\ wText = <<>> /\ wKey = <<>> /\ wResult = <<>> /\ wIo = <<>>
    /\ c2s = <<>> /\ s2c = <<>> /\ holders = <<>> /\ listenHolders = {}
    /\ closes = <<>>

ConnIdle ==
    /\ nSplit = FALSE /\ nTag = <<>> /\ nText = <<>> /\ nKey = <<>>
    /\ nPc = <<>> /\ nSub = <<>> /\ nStatus = <<>> /\ nLen = <<>> /\ nI = <<>>
    /\ nBuf = <<>> /\ nPeerTag = <<>> /\ nGot = <<>> /\ nResult = <<>>
    /\ nWire = <<>> /\ nInbox = <<>>

-----------------------------------------------------------------------------
(* Characters and the alphabet *)

\* ' ' (enc_server.c:170)
SP == 32
\* 'A' (enc_server.c:170)
CH_A == 65
\* the modulus of the pad arithmetic (enc_server.c:172)
MODULUS == 27

\* "ABCDEFGHIJKLMNOPQRSTUVWXYZ " of keygen.c: rank r is at index r+1
AlphabetStr == [r \in 1..27 |-> IF r <= 26 THEN 64 + r ELSE 32]

Alphabet == {AlphabetStr[r] : r \in 1..27}

\* the rank 0..26 of an alphabet symbol, by lookup in the alphabet string
RankOf(c) == CHOOSE r \in 0..26 : AlphabetStr[r + 1] = c

SymbolOf(r) == AlphabetStr[r + 1]

\* C's % on int: the remainder has the sign of the dividend
CMod(a, b) == IF a >= 0 THEN a % b ELSE 0 - ((0 - a) % b)

-----------------------------------------------------------------------------
(* The pad arithmetic of handleOtpComm, enc_server.c:169-174 *)

TxtVal_NoSpace(c) == c - CH_A
\* int txtVal = text[i] == ' ' ? 26 : text[i] - 'A';
TxtVal(c) == IF c = SP THEN 26 ELSE c - CH_A

\* int keyVal = key[i] == ' ' ? 26 : key[i] - 'A';
KeyVal(c) == IF c = SP THEN 26 ELSE c - CH_A

EncVal_Mod26(t, k) == CMod(t + k, 26)
\* int encVal = (txtVal + keyVal) % 27;
EncVal(t, k) == CMod(t + k, MODULUS)

ResultChar_NoSpace(e) == e + CH_A
\* result[i] = encVal == 26 ? ' ' : encVal + 'A';
ResultChar(e) == IF e = 26 THEN SP ELSE e + CH_A

\* one iteration of the loop body on text[i], key[i]
EncChar(t, k) == ResultChar(EncVal(TxtVal(t), KeyVal(k)))

\* a byte read through a char*: char is signed
CharOf(b) == IF b >= 128 THEN b - 256 ELSE b

\* an int stored into a char
ByteOf(v) == v % 256

\* key[i] at the 1-based position j: past the key's bytes comes its
\* terminator, and past that whatever the heap holds there (heap[j])
KeyRead(key, j, heap) ==
    IF j <= Len(key) THEN key[j]
    ELSE IF j = Len(key) + 1 THEN 0
    ELSE heap[j]

\* the whole loop: len = strlen(text) iterations, key read at the same index
Encrypt(text, key, heap) ==
    [j \in 1..Len(text) |->
        ByteOf(EncChar(CharOf(text[j]), CharOf(KeyRead(key, j, heap))))]

\* The decryption service (dec_server) is not part of the sources; its
\* arithmetic is the one the specification gives: (t - k + 27) mod 27.
\* (a byte outside the alphabet has no rank: the result is NUL)
DecChar(t, k) ==
    IF t \in Alphabet /\ k \in Alphabet
    THEN SymbolOf((RankOf(t) - RankOf(k) + 27) % 27)
    ELSE 0

Decrypt(text, key) == [j \in 1..Len(text) |-> DecChar(text[j], key[j])]

-----------------------------------------------------------------------------
(* SpecCipher: the inputs *)

\* longest text built from SmallSyms
MaxLen == 2

SeqsUpTo(S, n) == UNION {[1..m -> S] : m \in 0..n}

\* 'A', 'B', 'Z', ' '
SmallSyms == {65, 66, 90, 32}

HELLO == <<72, 69, 76, 76, 79>>
WORLD == <<87, 79, 82, 76, 68>>
CSBWR == <<67, 83, 66, 87, 82>>

\* every pair of single symbols (a key one symbol longer included), every
\* short text over SmallSyms with every key at least as long, and the
\* HELLO/WORLD scenario
CipherInputs ==
    {<<(<<t>>), (<<k>>)>> : t \in Alphabet, k \in Alphabet}
    \cup {<<(<<t>>), (<<k, SP>>)>> : t \in Alphabet, k \in Alphabet}
    \cup {p \in SeqsUpTo(SmallSyms, MaxLen) \X SeqsUpTo(SmallSyms, MaxLen + 1) :
            Len(p[2]) >= Len(p[1])}
    \cup {<<HELLO, WORLD>>}

CipherInit ==
    /\ \E p \in CipherInputs : xText = p[1] /\ xKey = p[2]
    /\ xResult = <<>>
    /\ xI = 0
    /\ xPc = "loop"
    /\ xBack = <<>>
    /\ xDec = <<>>
    /\ ConnIdle
    /\ FrameIdle
    /\ ProtoIdle

\* for (int i = 0; i < len; i++) { ... result[i] = ... }
handleOtpComm_loop ==
    /\ xPc = "loop"
    /\ xI < Len(xText)
    /\ xResult' = Append(xResult, EncChar(xText[xI + 1], xKey[xI + 1]))
    /\ xI' = xI + 1
    /\ UNCHANGED <<xText, xKey, xPc, xBack, xDec, frameVars, protoVars, connVars>>

\* loop exit, result[len] = '\0'
handleOtpComm_end ==
    /\ xPc = "loop"
    /\ ~(xI < Len(xText))
    /\ xPc' = "done"
    /\ UNCHANGED <<xText, xKey, xResult, xI, xBack, xDec, frameVars, protoVars, connVars>>

\* the decryption service applied to the result and to the text itself
DecryptBack ==
    /\ xPc = "done"
    /\ xBack' = Decrypt(xResult, xKey)
    /\ xDec' = Decrypt(xText, xKey)
    /\ xPc' = "dec"
    /\ UNCHANGED <<xText, xKey, xResult, xI, frameVars, protoVars, connVars>>

CipherNext == handleOtpComm_loop \/ handleOtpComm_end \/ DecryptBack

SpecCipher == CipherInit /\ [][CipherNext]_vars

-----------------------------------------------------------------------------
(* C1: round trip. Decrypting with the key, by (t - k + 27) mod 27, the    *)
(* output of the server's encryption loop gives back the text exactly.     *)
C1_RoundTrip == xPc = "dec" => xBack = xText

C1_Witness ==
    /\ xPc = "dec"
    /\ xText = HELLO
    /\ xResult = CSBWR
    /\ xBack = HELLO

(* C2: the result has the length of the text and at each position is the   *)
(* symbol of rank (rank(T[i]) + rank(K[i])) mod 27; HELLO with WORLD gives *)
(* CSBWR.                                                                  *)
C2_EncryptResult ==
    xPc \in {"done", "dec"} =>
        /\ Len(xResult) = Len(xText)
        /\ \A j \in 1..Len(xText) :
              xResult[j] = SymbolOf((RankOf(xText[j]) + RankOf(xKey[j])) % 27)
        /\ (xText = HELLO /\ xKey = WORLD => xResult = CSBWR)

C2_Witness ==
    /\ xPc = "done"
    /\ xText = <<SP, 90>>
    /\ xKey = <<SP, 66, 65>>
    /\ xResult = <<90, SP>>

(* C3: alphabet closure. Every symbol of the output, in either direction,  *)
(* is an uppercase letter or a space.                                      *)
C3_AlphabetClosure ==
    /\ \A j \in 1..Len(xResult) : xResult[j] \in Alphabet
    /\ \A j \in 1..Len(xDec) : xDec[j] \in Alphabet
    /\ \A j \in 1..Len(xBack) : xBack[j] \in Alphabet

C3_Witness ==
    /\ xPc = "dec"
    /\ xText = <<90>>
    /\ xKey = <<66>>
    /\ xResult = <<SP>>
    /\ xDec = <<89>>

-----------------------------------------------------------------------------
(* Byte streams and the int length prefix *)

\* #define BUFFER_SIZE 1000
BUFFER_SIZE == 1000

\* sizeof(int), the width of the length prefix
INT_SIZE == 4

Min(a, b) == IF a < b THEN a ELSE b

Drop(s, n) == SubSeq(s, n + 1, Len(s))

Take(s, n) == SubSeq(s, 1, n)

\* the bytes of an int in memory (two's complement, least significant first)
IntBytes(n) ==
    LET u == IF n >= 0 THEN n ELSE n + 2147483647 + 1
        top == IF n >= 0 THEN u \div 16777216 ELSE (u \div 16777216) + 128
    IN  <<u % 256, (u \div 256) % 256, (u \div 65536) % 256, top>>

\* the int held by four bytes of memory
BytesInt(b) ==
    LET low == b[1] + 256 * b[2] + 65536 * b[3]
    IN  IF b[4] >= 128 THEN (b[4] - 256) * 16777216 + low
                       ELSE b[4] * 16777216 + low

\* strlen: the bytes before the first NUL
StrLen(s) ==
    IF \E j \in 1..Len(s) : s[j] = 0
    THEN (CHOOSE j \in 1..Len(s) : s[j] = 0 /\ \A h \in 1..(j - 1) : s[h] # 0) - 1
    ELSE Len(s)

-----------------------------------------------------------------------------
(* SpecFrame: sendData on one end, receive on the other, over a transport  *)
(* whose send() may accept, and whose recv() may deliver, fewer bytes than *)
(* requested.                                                              *)

\* longest payload whose every split is explored
MaxFrameLen == 3

\* requests up to this size are split at every byte; longer ones by halving
MaxFine == 4

\* what an int or a buffer that was never written may hold
UninitBytes == {0, 255}

\* the sizes in which the transport may take or hand over a request of n
\* bytes: any positive count up to n (for a long request: n, half of n, and
\* so on down to single bytes as the remainder is halved again)
Pieces(n) == IF n <= MaxFine THEN 1..n ELSE {n, (n + 1) \div 2}

\* a payload of n alphabet bytes, each position different from its neighbours
LongData(n) == [j \in 1..n |-> AlphabetStr[(j % 27) + 1]]

FrameInputs ==
    SeqsUpTo({65, 66}, MaxFrameLen)
    \cup {LongData(BUFFER_SIZE + 1)}

FrameInit ==
    /\ ConnIdle
    /\ CipherIdle
    /\ ProtoIdle
    /\ fData \in FrameInputs
    /\ fSPc = "prefix" /\ fSI = 0 /\ fSStatus = NoStatus
    /\ fAccepted = <<>> /\ fStream = <<>> /\ fClosed = FALSE
    /\ fRPc = "prefix" /\ fRLen = 0 /\ fRBuf = <<>> /\ fRI = 0 /\ fRRead = 0
    /\ fRStatus = NoStatus

\* sendData, lines 77-79: int len = strlen(data); send(sock, &len, sizeof(len), 0)
\* returned k >= 0. The return value is only compared with 0.
sendData_prefix ==
    /\ fSPc = "prefix"
    /\ \E k \in Pieces(INT_SIZE) :
          LET bytes == Take(IntBytes(StrLen(fData)), k)
          IN  /\ fStream' = fStream \o bytes
              /\ fAccepted' = fAccepted \o bytes
    /\ fSPc' = "loop"
    /\ fSI' = 0
    /\ UNCHANGED <<fData, fSStatus, fClosed, receiverVars, cipherVars, protoVars, connVars>>

\* i += charsSent: the count requested, whatever send() returned
sendData_chunk_Advance(i, charsSent, k) == i + charsSent

\* sendData, lines 83-88: one iteration, send() returned k >= 0
sendData_chunk ==
    /\ fSPc = "loop"
    /\ fSI < StrLen(fData)
    /\ LET remaining == StrLen(fData) - fSI
           charsSent == IF remaining < BUFFER_SIZE THEN remaining ELSE BUFFER_SIZE
       IN  \E k \in Pieces(charsSent) :
              LET bytes == SubSeq(fData, fSI + 1, fSI + k)
              IN  /\ fStream' = fStream \o bytes
                  /\ fAccepted' = fAccepted \o bytes
                  /\ fSI' = sendData_chunk_Advance(fSI, charsSent, k)
    /\ UNCHANGED <<fData, fSPc, fSStatus, fClosed, receiverVars, cipherVars, protoVars, connVars>>

\* sendData, lines 78-79 and 86-87: send() < 0, error(1, ...) exits
sendData_fail ==
    /\ \/ fSPc = "prefix"
       \/ fSPc = "loop" /\ fSI < StrLen(fData)
    /\ fSPc' = "exit"
    /\ fSStatus' = 1
    /\ fClosed' = TRUE
    /\ UNCHANGED <<fData, fSI, fAccepted, fStream, receiverVars, cipherVars, protoVars, connVars>>

\* sendData, line 83: i < len is false, the function returns
sendData_return ==
    /\ fSPc = "loop"
    /\ ~(fSI < StrLen(fData))
    /\ fSPc' = "done"
    /\ UNCHANGED <<fData, fSI, fSStatus, fAccepted, fStream, fClosed,
                   receiverVars, cipherVars, protoVars, connVars>>

\* the sender closes its socket after sendData returned
sender_close ==
    /\ fSPc = "done"
    /\ ~fClosed
    /\ fClosed' = TRUE
    /\ UNCHANGED <<fData, fSPc, fSI, fSStatus, fAccepted, fStream,
                   receiverVars, cipherVars, protoVars, connVars>>

\* receive, lines 103-105: recv(sock, &len, sizeof(len), 0) returned k > 0;
\* the bytes of len that recv did not write keep what the stack held
receive_prefix ==
    /\ fRPc = "prefix"
    /\ Len(fStream) > 0
    /\ \E k \in Pieces(Min(INT_SIZE, Len(fStream))) :
       \E junk \in [1..(INT_SIZE - k) -> UninitBytes] :
          /\ fRLen' = BytesInt(Take(fStream, k) \o junk)
          /\ fStream' = Drop(fStream, k)
    /\ fRPc' = "alloc"
    /\ UNCHANGED <<senderVars, fRBuf, fRI, fRRead, fRStatus, cipherVars, protoVars, connVars>>

\* receive, lines 103-105: recv returned 0, the peer has closed and nothing
\* is left to read; len is never written
receive_prefix_eof ==
    /\ fRPc = "prefix"
    /\ Len(fStream) = 0
    /\ fClosed
    /\ \E junk \in [1..INT_SIZE -> UninitBytes] : fRLen' = BytesInt(junk)
    /\ fRPc' = "alloc"
    /\ UNCHANGED <<senderVars, fStream, fRBuf, fRI, fRRead, fRStatus, cipherVars, protoVars, connVars>>

\* receive, lines 104-105 and 117-118: recv() < 0, error(1, ...) exits
receive_fail ==
    /\ \/ fRPc = "prefix"
       \/ fRPc = "loop" /\ fRI < fRLen
    /\ fRPc' = "exit"
    /\ fRStatus' = 1
    /\ UNCHANGED <<senderVars, fStream, fRLen, fRBuf, fRI, fRRead, cipherVars, protoVars, connVars>>

\* receive, lines 108-110: malloc(len + 1) returned a buffer. len + 1 is
\* converted to size_t: a negative value asks for more than the address space
receive_malloc ==
    /\ fRPc = "alloc"
    /\ fRLen + 1 >= 0
    /\ fRPc' = "loop"
    /\ fRI' = 0
    /\ fRBuf' = <<>>
    /\ UNCHANGED <<senderVars, fStream, fRLen, fRRead, fRStatus, cipherVars, protoVars, connVars>>

\* receive, lines 109-110: malloc returned NULL, error(1, ...) exits
receive_malloc_fail ==
    /\ fRPc = "alloc"
    /\ fRPc' = "exit"
    /\ fRStatus' = 1
    /\ UNCHANGED <<senderVars, fStream, fRLen, fRBuf, fRI, fRRead, cipherVars, protoVars, connVars>>

\* int size = len - i > BUFFER_SIZE - 1 ? BUFFER_SIZE - 1 : len - i;
receive_size(len, i) ==
    IF len - i > BUFFER_SIZE - 1 THEN BUFFER_SIZE - 1 ELSE len - i

\* receive, lines 114-119: one iteration, recv() returned k > 0
receive_chunk ==
    /\ fRPc = "loop"
    /\ fRI < fRLen
    /\ Len(fStream) > 0
    /\ \E k \in Pieces(Min(receive_size(fRLen, fRI), Len(fStream))) :
          /\ fRBuf' = Take(fRBuf, fRI) \o Take(fStream, k)
          /\ fStream' = Drop(fStream, k)
          /\ fRRead' = k
          /\ fRI' = fRI + k
    /\ UNCHANGED <<senderVars, fRPc, fRLen, fRStatus, cipherVars, protoVars, connVars>>

\* receive, lines 114-119: recv() returned 0 (the peer closed early);
\* charsRead < 0 is false and i += 0 leaves the loop where it was
receive_chunk_eof ==
    /\ fRPc = "loop"
    /\ fRI < fRLen
    /\ Len(fStream) = 0
    /\ fClosed
    /\ fRRead' = 0
    /\ fRI' = fRI + 0
    /\ UNCHANGED <<senderVars, fStream, fRPc, fRLen, fRBuf, fRStatus, cipherVars, protoVars, connVars>>

\* receive, lines 121-122: result[len] = '\0'; return result
receive_return ==
    /\ fRPc = "loop"
    /\ ~(fRI < fRLen)
    /\ fRLen >= 0
    /\ fRPc' = "done"
    /\ UNCHANGED <<senderVars, fStream, fRLen, fRBuf, fRI, fRRead, fRStatus,
                   cipherVars, protoVars, connVars>>

\* receive, line 121 with len = -1: malloc(0) gave a buffer and result[-1]
\* is written before it: the process is killed or carries on with a string
\* of whatever the heap holds
receive_return_wild ==
    /\ fRPc = "loop"
    /\ fRLen < 0
    /\ \/ fRPc' = "crash" /\ UNCHANGED fRBuf
       \/ fRPc' = "done" /\ fRBuf' \in SeqsUpTo(UninitBytes \ {0}, 1)
    /\ UNCHANGED <<senderVars, fStream, fRLen, fRI, fRRead, fRStatus, cipherVars, protoVars, connVars>>

FrameNext ==
    \/ sendData_prefix
    \/ sendData_chunk
    \/ sendData_fail
    \/ sendData_return
    \/ sender_close
    \/ receive_prefix
    \/ receive_prefix_eof
    \/ receive_fail
    \/ receive_malloc
    \/ receive_malloc_fail
    \/ receive_chunk
    \/ receive_chunk_eof
    \/ receive_return
    \/ receive_return_wild

SpecFrame == FrameInit /\ [][FrameNext]_vars

(* C4: framing fidelity. receive() returns exactly the byte sequence that  *)
(* sendData() was given, however the transport splits writes and reads,    *)
(* the length prefix included.                                             *)
C4_FramingFidelity ==
    (fSPc = "done" /\ fRPc = "done") => fRBuf = fData

-----------------------------------------------------------------------------
(* Spec: the listener, its forked workers and the clients.                 *)
(* Here every send() takes all the bytes it is given or fails, and every   *)
(* recv() hands over the bytes of one send() whole; SpecFrame covers the   *)
(* short transfers.                                                        *)

\* clients, hence connections, that run against the server
MaxConn == 2

Conns == 1..MaxConn

\* listen(listenSock, 5)
LISTEN_BACKLOG == 5

\* char server[4] = "enc" (enc_server.c:136)
SERVER_TAG == <<101, 110, 99, 0>>

\* char client[4] = "dec" (dec_client.c:135)
CLIENT_TAG == <<100, 101, 99, 0>>

\* the client of the encryption service, enc_client, is not under src/: it
\* is dec_client with the tag "enc"
PartnerClientTag == <<101, 110, 99, 0>>

ClientPrograms == {CLIENT_TAG, PartnerClientTag}

\* exit codes of the error() calls
EXIT_OK == 0
EXIT_TRANSPORT == 1
EXIT_MISMATCH_AsTransport == EXIT_TRANSPORT
EXIT_MISMATCH == 2
\* dec_client.c: error(0, ...) before the connection exists
EXIT_CLIENT_SETUP == 0

\* the contents of the two files of client c: a text and a key at least as
\* long, different for every client, or a key shorter than the text
FilePairs(c) ==
    { <<(<<64 + c, 90>>), (<<SP, 64 + c, 66>>)>>,
      <<(<<64 + c, 66>>), (<<90>>)>> }

\* memset(buf, '\0', 4) followed by a recv() that wrote `bytes`
Filled(bytes) == bytes \o [j \in 1..(INT_SIZE - Len(bytes)) |-> 0]

StrCmp_Always0(a, b) == 0
\* strcmp: 0 when the two C strings are equal, non-zero otherwise
StrCmp(a, b) == IF Take(a, StrLen(a)) = Take(b, StrLen(b)) THEN 0 ELSE 1

\* the listening socket accepts connections while some process holds it
Listening == listenOk /\ listenHolders # {}

Accepted(c) == wPc[c] # "none" \/ lSock = c

Queued(c) == \E j \in 1..Len(pending) : pending[j] = c

Gone(pc) == pc \in {"exit", "crash"}

\* the server's end of connection c is closed: no process holds the socket
ServerEndClosed(c) ==
    \/ Accepted(c) /\ holders[c] = {}
    \/ Queued(c) /\ listenHolders = {}

\* the client's end is closed: its process has terminated
ClientEndClosed(c) == Gone(cPc[c])

CloseBy_Twice(c, who) == [closes EXCEPT ![c][who] = @ + 2]
\* close(sock) called by `who` (L listener, W worker, C client) on connection c
CloseBy(c, who) == [closes EXCEPT ![c][who] = @ + 1]

\* what one call of receive() does with the bytes `chan` in flight, the peer
\* having closed or not (lines 101-123), when no recv() fails and malloc()
\* gives a buffer: it returns data, or never leaves its loop (recv() keeps
\* returning 0), or writes outside its buffer (len = -1); with len < -1
\* malloc() cannot succeed. `rest` is what stays in flight.
ReceiveAfterLen(len, body, peerClosed) ==
    IF len + 1 < 0 THEN {}
    ELSE IF len < 0 THEN
       {[kind |-> "crash", data |-> <<>>, rest |-> body]}
       \cup {[kind |-> "return", data |-> d, rest |-> body] :
                d \in SeqsUpTo(UninitBytes \ {0}, 1)}
    ELSE IF Len(body) >= len THEN
       {[kind |-> "return", data |-> Take(body, len), rest |-> Drop(body, len)]}
    ELSE IF peerClosed THEN
       {[kind |-> "spin", data |-> body, rest |-> <<>>]}
    ELSE {}

ReceiveOutcomes(chan, peerClosed) ==
    LET k == Min(INT_SIZE, Len(chan))
    IN  UNION { ReceiveAfterLen(BytesInt(Take(chan, k) \o junk), Drop(chan, k),
                                peerClosed) :
                junk \in [1..(INT_SIZE - k) -> UninitBytes] }

\* the bytes sendData puts on the wire when every send() succeeds
Frame(data) == IntBytes(StrLen(data)) \o Take(data, StrLen(data))

ParentAfterChildExit_Shared(exitCode, cause) ==
    /\ lPc' = "exit" /\ lStatus' = exitCode /\ lErr' = cause
\* lines 222-232: exit() in the forked child ends the child alone; the
\* parent is another process
ParentAfterChildExit(exitCode, cause) == UNCHANGED <<lPc, lStatus, lErr>>

-----------------------------------------------------------------------------
(* enc_server.c main: the listener *)

\* error(exitCode, ...) in the listener: exit() closes its descriptors
listener_error(exitCode, cause) ==
    /\ lPc' = "exit"
    /\ lStatus' = exitCode
    /\ lErr' = cause
    /\ listenHolders' = listenHolders \ {0}
    /\ holders' = [c \in Conns |-> holders[c] \ {0}]
    /\ UNCHANGED <<lSock, listenOk, pending, clientVars, workerVars, c2s, s2c, closes>>
    /\ UNCHANGED <<cipherVars, frameVars, connVars>>

listener_goto(pc) ==
    /\ lPc' = pc
    /\ UNCHANGED <<lStatus, lErr, cipherVars, frameVars, connVars>>

\* lines 196-197, argc < 2
main_usage ==
    /\ lPc = "args"
    /\ listener_error(EXIT_TRANSPORT, "usage")

\* lines 196-197, argc >= 2
main_args ==
    /\ lPc = "args"
    /\ listener_goto("socket")
    /\ UNCHANGED <<lSock, listenOk, pending, clientVars, workerVars, socketVars>>

\* lines 200-202, socket() succeeded
main_socket ==
    /\ lPc = "socket"
    /\ listener_goto("bind")
    /\ listenHolders' = listenHolders \cup {0}
    /\ UNCHANGED <<lSock, listenOk, pending, clientVars, workerVars, c2s, s2c,
                   holders, closes>>

\* lines 201-202, socket() < 0
main_socket_fail ==
    /\ lPc = "socket"
    /\ listener_error(EXIT_TRANSPORT, "socket")

\* lines 210-211, bind() succeeded
main_bind ==
    /\ lPc = "bind"
    /\ listener_goto("listen")
    /\ UNCHANGED <<lSock, listenOk, pending, clientVars, workerVars, socketVars>>

\* lines 210-211, bind() < 0
main_bind_fail ==
    /\ lPc = "bind"
    /\ listener_error(EXIT_TRANSPORT, "bind")

\* line 214: listen(listenSock, 5); its return value is not looked at
main_listen ==
    /\ lPc = "listen"
    /\ listenOk' \in BOOLEAN
    /\ listener_goto("accept")
    /\ UNCHANGED <<lSock, pending, clientVars, workerVars, socketVars>>

\* line 217, accept() returned the oldest completed connection
main_accept ==
    /\ lPc = "accept"
    /\ listenOk
    /\ pending # <<>>
    /\ lSock' = Head(pending)
    /\ pending' = Tail(pending)
    /\ holders' = [holders EXCEPT ![Head(pending)] = {0}]
    /\ listener_goto("fork")
    /\ UNCHANGED <<listenOk, clientVars, workerVars, c2s, s2c, listenHolders, closes>>

\* lines 218-219, accept() < 0
main_accept_fail ==
    /\ lPc = "accept"
    /\ listener_error(EXIT_TRANSPORT, "accept")

\* line 222, fork() returned: the child starts at validate(sock) with its
\* own copy of every descriptor, the parent goes on to close(sock)
main_fork ==
    /\ lPc = "fork"
    /\ wPc' = [wPc EXCEPT ![lSock] = "vRecv"]
    /\ holders' = [holders EXCEPT ![lSock] = @ \cup {lSock}]
    /\ listenHolders' = listenHolders \cup {lSock}
    /\ listener_goto("close")
    /\ UNCHANGED <<lSock, listenOk, pending, clientVars, wStatus, wErr, wCli,
                   wText, wKey, wResult, wIo, c2s, s2c, closes>>

\* lines 224-226, fork() = -1
main_fork_fail ==
    /\ lPc = "fork"
    /\ listener_error(EXIT_TRANSPORT, "fork")

ParentReady_AfterWait(c) == Gone(wPc[c])
\* lines 233-235: the parent's branch runs as soon as fork() has returned;
\* nothing in it waits for the child
ParentReady(c) == TRUE

\* lines 233-235, the parent closes its copy and loops
main_close ==
    /\ lPc = "close"
    /\ ParentReady(lSock)
    /\ holders' = [holders EXCEPT ![lSock] = @ \ {0}]
    /\ closes' = CloseBy(lSock, "L")
    /\ lSock' = 0
    /\ listener_goto("accept")
    /\ UNCHANGED <<listenOk, pending, clientVars, workerVars, c2s, s2c, listenHolders>>

-----------------------------------------------------------------------------
(* dec_client.c main: client c *)

\* exit(status) or return status from main in client c
client_exit(c, status, cause) ==
    /\ cPc' = [cPc EXCEPT ![c] = "exit"]
    /\ cStatus' = [cStatus EXCEPT ![c] = status]
    /\ cErr' = [cErr EXCEPT ![c] = cause]
    /\ UNCHANGED <<cipherVars, frameVars, connVars>>

\* error(exitCode, ...) in client c, lines 31-39
client_error(c, exitCode, cause) == client_exit(c, exitCode, cause)

client_goto(c, pc) ==
    /\ cPc' = [cPc EXCEPT ![c] = pc]
    /\ UNCHANGED <<cStatus, cErr, cipherVars, frameVars, connVars>>

\* lines 201-202, argc < 4
client_usage(c) ==
    /\ cPc[c] = "args"
    /\ client_error(c, EXIT_CLIENT_SETUP, "usage")
    /\ UNCHANGED <<cTag, cSrv, cText, cKey, cOut, cIo, listenerVars, workerVars,
                   socketVars>>

\* lines 201-202, argc >= 4; which of the two client programs runs
client_args(c) ==
    /\ cPc[c] = "args"
    /\ \E tag \in ClientPrograms : cTag' = [cTag EXCEPT ![c] = tag]
    /\ client_goto(c, "load")
    /\ UNCHANGED <<cSrv, cText, cKey, cOut, cIo, listenerVars, workerVars, socketVars>>

\* lines 205-206, stringFromFile returned both strings
client_load(c) ==
    /\ cPc[c] = "load"
    /\ \E p \in FilePairs(c) :
          /\ cText' = [cText EXCEPT ![c] = p[1]]
          /\ cKey' = [cKey EXCEPT ![c] = p[2]]
    /\ client_goto(c, "check")
    /\ UNCHANGED <<cTag, cSrv, cOut, cIo, listenerVars, workerVars, socketVars>>

\* stringFromFile, lines 161-162, 169-172, 176-180: the file cannot be
\* opened, the buffer cannot be allocated or a byte is outside the alphabet
client_load_fail(c) ==
    /\ cPc[c] = "load"
    /\ \E cause \in {"file", "alloc"} : client_error(c, EXIT_CLIENT_SETUP, cause)
    /\ UNCHANGED <<cTag, cSrv, cText, cKey, cOut, cIo, listenerVars, workerVars,
                   socketVars>>

KeyTooShort_Never(text, key) == FALSE
\* line 207: strlen(text) > strlen(key)
KeyTooShort(text, key) == StrLen(text) > StrLen(key)

\* lines 207-208
client_check(c) ==
    /\ cPc[c] = "check"
    /\ IF KeyTooShort(cText[c], cKey[c])
       THEN client_error(c, EXIT_CLIENT_SETUP, "keyshort")
       ELSE client_goto(c, "socket")
    /\ UNCHANGED <<cTag, cSrv, cText, cKey, cOut, cIo, listenerVars, workerVars,
                   socketVars>>

\* lines 211-213, socket() succeeded
client_socket(c) ==
    /\ cPc[c] = "socket"
    /\ client_goto(c, "connect")
    /\ UNCHANGED <<cTag, cSrv, cText, cKey, cOut, cIo, listenerVars, workerVars,
                   socketVars>>

\* lines 212-213, socket() < 0
client_socket_fail(c) ==
    /\ cPc[c] = "socket"
    /\ client_error(c, EXIT_CLIENT_SETUP, "socket")
    /\ UNCHANGED <<cTag, cSrv, cText, cKey, cOut, cIo, listenerVars, workerVars,
                   socketVars>>

AfterConnect_SkipValidate == "sendText"
\* line 224: validate(sock) is the first call after connect
AfterConnect == "vSend"

\* lines 220-221, connect() succeeded: the kernel queued the connection
client_connect(c) ==
    /\ cPc[c] = "connect"
    /\ Listening
    /\ Len(pending) <= LISTEN_BACKLOG
    /\ pending' = Append(pending, c)
    /\ client_goto(c, AfterConnect)
    /\ UNCHANGED <<cTag, cSrv, cText, cKey, cOut, cIo, lPc, lStatus, lErr, lSock,
                   listenOk, workerVars, socketVars>>

\* lines 220-221, connect() < 0
client_connect_fail(c) ==
    /\ cPc[c] = "connect"
    /\ client_error(c, EXIT_CLIENT_SETUP, "connect")
    /\ UNCHANGED <<cTag, cSrv, cText, cKey, cOut, cIo, listenerVars, workerVars,
                   socketVars>>

\* validate, lines 137-138, send() of the tag succeeded
client_validate_send(c) ==
    /\ cPc[c] = "vSend"
    /\ c2s' = [c2s EXCEPT ![c] = @ \o cTag[c]]
    /\ cIo' = [cIo EXCEPT ![c] = Append(@, "sTag")]
    /\ client_goto(c, "vRecv")
    /\ UNCHANGED <<cTag, cSrv, cText, cKey, cOut, listenerVars, workerVars,
                   s2c, holders, listenHolders, closes>>

\* validate, lines 140-147: recv() returned the tag (or 0 bytes after the
\* server closed), then strcmp decides
client_validate_recv(c) ==
    /\ cPc[c] = "vRecv"
    /\ s2c[c] # <<>> \/ ServerEndClosed(c)
    /\ LET got == Take(s2c[c], Min(INT_SIZE, Len(s2c[c])))
       IN  /\ cSrv' = [cSrv EXCEPT ![c] = Filled(got)]
           /\ s2c' = [s2c EXCEPT ![c] = Drop(@, Len(got))]
           /\ cIo' = [cIo EXCEPT ![c] = Append(@, "rTag")]
           /\ IF StrCmp(cTag[c], Filled(got)) # 0
              THEN /\ closes' = CloseBy(c, "C")
                   /\ client_error(c, EXIT_MISMATCH, "tag")
              ELSE /\ UNCHANGED closes
                   /\ client_goto(c, "sendText")
    /\ UNCHANGED <<cTag, cText, cKey, cOut, listenerVars, workerVars, c2s,
                   holders, listenHolders>>

\* validate, lines 137-141: send() or recv() < 0
client_validate_fail(c) ==
    /\ \/ cPc[c] = "vSend" /\ client_error(c, EXIT_TRANSPORT, "write")
       \/ cPc[c] = "vRecv" /\ client_error(c, EXIT_TRANSPORT, "read")
    /\ UNCHANGED <<cTag, cSrv, cText, cKey, cOut, cIo, listenerVars, workerVars,
                   socketVars>>

\* lines 225-226: sendData(sock, text), sendData(sock, key), every send() ok
client_sendData(c) ==
    /\ cPc[c] \in {"sendText", "sendKey"}
    /\ LET data == IF cPc[c] = "sendText" THEN cText[c] ELSE cKey[c]
       IN  c2s' = [c2s EXCEPT ![c] = @ \o Frame(data)]
    /\ cIo' = [cIo EXCEPT ![c] = @ \o <<"sLen", "sData">>]
    /\ client_goto(c, IF cPc[c] = "sendText" THEN "sendKey" ELSE "recv")
    /\ UNCHANGED <<cTag, cSrv, cText, cKey, cOut, listenerVars, workerVars,
                   s2c, holders, listenHolders, closes>>

\* sendData, lines 78-79: the send() of the prefix < 0
client_sendData_fail_prefix(c) ==
    /\ cPc[c] \in {"sendText", "sendKey"}
    /\ client_error(c, EXIT_TRANSPORT, "write")
    /\ UNCHANGED <<cTag, cSrv, cText, cKey, cOut, cIo, listenerVars, workerVars,
                   socketVars>>

\* sendData, lines 86-87: the prefix went out, the send() of the payload < 0
client_sendData_fail_chunk(c) ==
    /\ cPc[c] \in {"sendText", "sendKey"}
    /\ LET data == IF cPc[c] = "sendText" THEN cText[c] ELSE cKey[c]
       IN  /\ StrLen(data) > 0
           /\ c2s' = [c2s EXCEPT ![c] = @ \o IntBytes(StrLen(data))]
    /\ cIo' = [cIo EXCEPT ![c] = Append(@, "sLen")]
    /\ client_error(c, EXIT_TRANSPORT, "write")
    /\ UNCHANGED <<cTag, cSrv, cText, cKey, cOut, listenerVars, workerVars,
                   s2c, holders, listenHolders, closes>>

\* lines 227-231: receive(sock) returned; printf, close(sock), return 0
client_receive(c) ==
    /\ cPc[c] = "recv"
    /\ s2c[c] # <<>> \/ ServerEndClosed(c)
    /\ \E o \in ReceiveOutcomes(s2c[c], ServerEndClosed(c)) :
          /\ o.kind = "return"
          /\ s2c' = [s2c EXCEPT ![c] = o.rest]
          /\ cOut' = [cOut EXCEPT ![c] = o.data]
    /\ cIo' = [cIo EXCEPT ![c] = @ \o <<"rLen", "rData">>]
    /\ closes' = CloseBy(c, "C")
    /\ client_exit(c, EXIT_OK, "none")
    /\ UNCHANGED <<cTag, cSrv, cText, cKey, listenerVars, workerVars, c2s,
                   holders, listenHolders>>

\* receive, lines 104-105, 109-110, 117-118: recv() < 0 or malloc() = NULL
client_receive_fail(c) ==
    /\ cPc[c] = "recv"
    /\ \E cause \in {"read", "alloc"} : client_error(c, EXIT_TRANSPORT, cause)
    /\ UNCHANGED <<cTag, cSrv, cText, cKey, cOut, cIo, listenerVars, workerVars,
                   socketVars>>

\* receive, lines 114-119 and 121: the server closed before len bytes came
\* (the loop never ends), or len was never written and is negative
client_receive_lost(c) ==
    /\ cPc[c] = "recv"
    /\ ServerEndClosed(c)
    /\ \E o \in ReceiveOutcomes(s2c[c], TRUE) :
          /\ o.kind \in {"spin", "crash"}
          /\ s2c' = [s2c EXCEPT ![c] = o.rest]
          /\ client_goto(c, o.kind)
    /\ UNCHANGED <<cTag, cSrv, cText, cKey, cOut, cIo, listenerVars, workerVars,
                   c2s, holders, listenHolders, closes>>

\* exit(status) in worker c: the process ends and its descriptors close
worker_exit(c, status, cause) ==
    /\ wPc' = [wPc EXCEPT ![c] = "exit"]
    /\ wStatus' = [wStatus EXCEPT ![c] = status]
    /\ wErr' = [wErr EXCEPT ![c] = cause]
    /\ holders' = [holders EXCEPT ![c] = @ \ {c}]
    /\ listenHolders' = listenHolders \ {c}
    /\ ParentAfterChildExit(status, cause)
    /\ UNCHANGED <<cipherVars, frameVars, connVars>>

\* error(exitCode, ...) in worker c, lines 28-41
worker_error(c, exitCode, cause) == worker_exit(c, exitCode, cause)

worker_goto(c, pc) ==
    /\ wPc' = [wPc EXCEPT ![c] = pc]
    /\ UNCHANGED <<wStatus, wErr, holders, listenHolders, lPc, lStatus, lErr>>
    /\ UNCHANGED <<cipherVars, frameVars, connVars>>

\* the process is killed by a signal: no exit status of its own
worker_killed(c) ==
    /\ wPc' = [wPc EXCEPT ![c] = "crash"]
    /\ wStatus' = [wStatus EXCEPT ![c] = KilledStatus]
    /\ wErr' = [wErr EXCEPT ![c] = "signal"]
    /\ holders' = [holders EXCEPT ![c] = @ \ {c}]
    /\ listenHolders' = listenHolders \ {c}
    /\ UNCHANGED <<lPc, lStatus, lErr, cipherVars, frameVars, connVars>>

\* validate, lines 140-141: recv() returned the client's tag (or 0 bytes
\* after the client closed)
worker_validate_recv(c) ==
    /\ wPc[c] = "vRecv"
    /\ c2s[c] # <<>> \/ ClientEndClosed(c)
    /\ LET got == Take(c2s[c], Min(INT_SIZE, Len(c2s[c])))
       IN  /\ wCli' = [wCli EXCEPT ![c] = Filled(got)]
           /\ c2s' = [c2s EXCEPT ![c] = Drop(@, Len(got))]
    /\ wIo' = [wIo EXCEPT ![c] = Append(@, "rTag")]
    /\ worker_goto(c, "vSend")
    /\ UNCHANGED <<wText, wKey, wResult, s2c, closes, lSock, listenOk, pending,
                   clientVars>>

\* validate, lines 144-151: send() of the server's tag succeeded, then
\* strcmp decides
worker_validate_send(c) ==
    /\ wPc[c] = "vSend"
    /\ s2c' = [s2c EXCEPT ![c] = @ \o SERVER_TAG]
    /\ wIo' = [wIo EXCEPT ![c] = Append(@, "sTag")]
    /\ IF StrCmp(wCli[c], SERVER_TAG) # 0
       THEN /\ closes' = CloseBy(c, "W")
            /\ worker_error(c, EXIT_MISMATCH, "tag")
       ELSE /\ UNCHANGED closes
            /\ worker_goto(c, "recvText")
    /\ UNCHANGED <<wCli, wText, wKey, wResult, c2s, lSock, listenOk, pending,
                   clientVars>>

\* validate, lines 140-145: recv() or send() < 0
worker_validate_fail(c) ==
    /\ \/ wPc[c] = "vRecv" /\ worker_error(c, EXIT_TRANSPORT, "read")
       \/ wPc[c] = "vSend" /\ worker_error(c, EXIT_TRANSPORT, "write")
    /\ UNCHANGED <<wCli, wText, wKey, wResult, wIo, c2s, s2c, closes, lSock,
                   listenOk, pending, clientVars>>

\* handleOtpComm, lines 163-164: receive(sock) returned the text, the key
worker_receive(c) ==
    /\ wPc[c] \in {"recvText", "recvKey"}
    /\ c2s[c] # <<>> \/ ClientEndClosed(c)
    /\ \E o \in ReceiveOutcomes(c2s[c], ClientEndClosed(c)) :
          /\ o.kind = "return"
          /\ c2s' = [c2s EXCEPT ![c] = o.rest]
          /\ IF wPc[c] = "recvText"
             THEN wText' = [wText EXCEPT ![c] = o.data] /\ UNCHANGED wKey
             ELSE wKey' = [wKey EXCEPT ![c] = o.data] /\ UNCHANGED wText
    /\ wIo' = [wIo EXCEPT ![c] = @ \o <<"rLen", "rData">>]
    /\ worker_goto(c, IF wPc[c] = "recvText" THEN "recvKey" ELSE "transform")
    /\ UNCHANGED <<wCli, wResult, s2c, closes, lSock, listenOk, pending, clientVars>>

\* receive, lines 104-105, 109-110, 117-118: recv() < 0 or malloc() = NULL
worker_receive_fail(c) ==
    /\ wPc[c] \in {"recvText", "recvKey"}
    /\ \E cause \in {"read", "alloc"} : worker_error(c, EXIT_TRANSPORT, cause)
    /\ UNCHANGED <<wCli, wText, wKey, wResult, wIo, c2s, s2c, closes, lSock,
                   listenOk, pending, clientVars>>

\* receive, lines 114-119 and 121: the client closed before len bytes came
\* (the loop never ends), or len was never written and is negative
worker_receive_lost(c) ==
    /\ wPc[c] \in {"recvText", "recvKey"}
    /\ ClientEndClosed(c)
    /\ \E o \in ReceiveOutcomes(c2s[c], TRUE) :
          /\ o.kind \in {"spin", "crash"}
          /\ c2s' = [c2s EXCEPT ![c] = o.rest]
          /\ IF o.kind = "spin" THEN worker_goto(c, "spin") ELSE worker_killed(c)
    /\ UNCHANGED <<wCli, wText, wKey, wResult, wIo, s2c, closes, lSock, listenOk,
                   pending, clientVars>>

WorkerKey_Shared(c) == wKey[1]
\* char* key = receive(sock): the buffer of this process
WorkerKey(c) == wKey[c]

WorkerText(c) == wText[c]

\* handleOtpComm, lines 165-175: malloc gave the result buffer, the loop ran
worker_transform(c) ==
    /\ wPc[c] = "transform"
    /\ \E heap \in [(Len(WorkerKey(c)) + 2)..Len(WorkerText(c)) -> UninitBytes] :
          wResult' = [wResult EXCEPT ![c] =
                         Encrypt(WorkerText(c), WorkerKey(c), heap)]
    /\ worker_goto(c, "send")
    /\ UNCHANGED <<wCli, wText, wKey, wIo, c2s, s2c, closes, lSock, listenOk,
                   pending, clientVars>>

\* handleOtpComm, line 166: malloc returned NULL and nothing checks it; the
\* first write through result (line 173 or 175) kills the process
worker_transform_nomem(c) ==
    /\ wPc[c] = "transform"
    /\ worker_killed(c)
    /\ UNCHANGED <<wCli, wText, wKey, wResult, wIo, c2s, s2c, closes, lSock,
                   listenOk, pending, clientVars>>

\* handleOtpComm, lines 178-182 and main, line 232: sendData succeeded,
\* free, close(sock), exit(0)
worker_sendData(c) ==
    /\ wPc[c] = "send"
    /\ s2c' = [s2c EXCEPT ![c] = @ \o Frame(wResult[c])]
    /\ wIo' = [wIo EXCEPT ![c] = @ \o <<"sLen", "sData">>]
    /\ closes' = CloseBy(c, "W")
    /\ worker_exit(c, EXIT_OK, "none")
    /\ UNCHANGED <<wCli, wText, wKey, wResult, c2s, lSock, listenOk, pending,
                   clientVars>>

\* sendData, lines 78-79: the send() of the prefix < 0
worker_sendData_fail_prefix(c) ==
    /\ wPc[c] = "send"
    /\ worker_error(c, EXIT_TRANSPORT, "write")
    /\ UNCHANGED <<wCli, wText, wKey, wResult, wIo, c2s, s2c, closes, lSock,
                   listenOk, pending, clientVars>>

\* sendData, lines 86-87: the prefix went out, the send() of the payload < 0
worker_sendData_fail_chunk(c) ==
    /\ wPc[c] = "send"
    /\ StrLen(wResult[c]) > 0
    /\ s2c' = [s2c EXCEPT ![c] = @ \o IntBytes(StrLen(wResult[c]))]
    /\ wIo' = [wIo EXCEPT ![c] = Append(@, "sLen")]
    /\ worker_error(c, EXIT_TRANSPORT, "write")
    /\ UNCHANGED <<wCli, wText, wKey, wResult, c2s, closes, lSock, listenOk,
                   pending, clientVars>>

-----------------------------------------------------------------------------

Init ==
    /\ ConnIdle
    /\ CipherIdle
    /\ FrameIdle
    /\ lPc = "args" /\ lStatus = NoStatus /\ lErr = "none" /\ lSock = 0
    /\ listenOk = FALSE /\ pending = <<>>
    /\ cPc = [c \in Conns |-> "args"]
    /\ cStatus = [c \in Conns |-> NoStatus]
    /\ cErr = [c \in Conns |-> "none"]
    /\ cTag = [c \in Conns |-> <<>>]
    /\ cSrv = [c \in Conns |-> <<>>]
    /\ cText = [c \in Conns |-> <<>>]
    /\ cKey = [c \in Conns |-> <<>>]
    /\ cOut = [c \in Conns |-> <<>>]
    /\ cIo = [c \in Conns |-> <<>>]
    /\ wPc = [c \in Conns |-> "none"]
    /\ wStatus = [c \in Conns |-> NoStatus]
    /\ wErr = [c \in Conns |-> "none"]
    /\ wCli = [c \in Conns |-> <<>>]
    /\ wText = [c \in Conns |-> <<>>]
    /\ wKey = [c \in Conns |-> <<>>]
    /\ wResult = [c \in Conns |-> <<>>]
    /\ wIo = [c \in Conns |-> <<>>]
    /\ c2s = [c \in Conns |-> <<>>]
    /\ s2c = [c \in Conns |-> <<>>]
    /\ holders = [c \in Conns |-> {}]
    /\ listenHolders = {}
    /\ closes = [c \in Conns |-> [L |-> 0, W |-> 0, C |-> 0]]

\* a step of the listener
ListenerNext ==
    \/ main_usage
    \/ main_args
    \/ main_socket
    \/ main_socket_fail
    \/ main_bind
    \/ main_bind_fail
    \/ main_listen
    \/ main_accept
    \/ main_accept_fail
    \/ main_fork
    \/ main_fork_fail
    \/ main_close

\* a step of the client of connection c
ClientNext(c) ==
    \/ client_usage(c)
    \/ client_args(c)
    \/ client_load(c)
    \/ client_load_fail(c)
    \/ client_check(c)
    \/ client_socket(c)
    \/ client_socket_fail(c)
    \/ client_connect(c)
    \/ client_connect_fail(c)
    \/ client_validate_send(c)
    \/ client_validate_recv(c)
    \/ client_validate_fail(c)
    \/ client_sendData(c)
    \/ client_sendData_fail_prefix(c)
    \/ client_sendData_fail_chunk(c)
    \/ client_receive(c)
    \/ client_receive_fail(c)
    \/ client_receive_lost(c)

\* a step of the worker of connection c
WorkerNext(c) ==
    \/ worker_validate_recv(c)
    \/ worker_validate_send(c)
    \/ worker_validate_fail(c)
    \/ worker_receive(c)
    \/ worker_receive_fail(c)
    \/ worker_receive_lost(c)
    \/ worker_transform(c)
    \/ worker_transform_nomem(c)
    \/ worker_sendData(c)
    \/ worker_sendData_fail_prefix(c)
    \/ worker_sendData_fail_chunk(c)

Next ==
    \/ main_usage
    \/ main_args
    \/ main_socket
    \/ main_socket_fail
    \/ main_bind
    \/ main_bind_fail
    \/ main_listen
    \/ main_accept
    \/ main_accept_fail
    \/ main_fork
    \/ main_fork_fail
    \/ main_close
    \/ \E c \in Conns : client_usage(c)
    \/ \E c \in Conns : client_args(c)
    \/ \E c \in Conns : client_load(c)
    \/ \E c \in Conns : client_load_fail(c)
    \/ \E c \in Conns : client_check(c)
    \/ \E c \in Conns : client_socket(c)
    \/ \E c \in Conns : client_socket_fail(c)
    \/ \E c \in Conns : client_connect(c)
    \/ \E c \in Conns : client_connect_fail(c)
    \/ \E c \in Conns : client_validate_send(c)
    \/ \E c \in Conns : client_validate_recv(c)
    \/ \E c \in Conns : client_validate_fail(c)
    \/ \E c \in Conns : client_sendData(c)
    \/ \E c \in Conns : client_sendData_fail_prefix(c)
    \/ \E c \in Conns : client_sendData_fail_chunk(c)
    \/ \E c \in Conns : client_receive(c)
    \/ \E c \in Conns : client_receive_fail(c)
    \/ \E c \in Conns : client_receive_lost(c)
    \/ \E c \in Conns : worker_validate_recv(c)
    \/ \E c \in Conns : worker_validate_send(c)
    \/ \E c \in Conns : worker_validate_fail(c)
    \/ \E c \in Conns : worker_receive(c)
    \/ \E c \in Conns : worker_receive_fail(c)
    \/ \E c \in Conns : worker_receive_lost(c)
    \/ \E c \in Conns : worker_transform(c)
    \/ \E c \in Conns : worker_transform_nomem(c)
    \/ \E c \in Conns : worker_sendData(c)
    \/ \E c \in Conns : worker_sendData_fail_prefix(c)
    \/ \E c \in Conns : worker_sendData_fail_chunk(c)

Spec == Init /\ [][Next]_vars

-----------------------------------------------------------------------------
(* Properties of Spec *)

\* the log holds the event
Has(log, ev) == \E j \in 1..Len(log) : log[j] = ev

\* how often the log holds the event
Count(log, ev) == Cardinality({j \in 1..Len(log) : log[j] = ev})

\* the log begins with the two events, in this order
StartsWith(log, e1, e2) == Len(log) >= 2 /\ log[1] = e1 /\ log[2] = e2

\* the send()/recv() calls of the Messages: length prefixes and payloads
MessageEvents == {"sLen", "sData", "rLen", "rData"}

HasMessage(log) == \E j \in 1..Len(log) : log[j] \in MessageEvents

\* the transform of the spec, by ranks in the alphabet
RankTransform(text, key) ==
    [j \in 1..Len(text) |-> SymbolOf((RankOf(text[j]) + RankOf(key[j])) % MODULUS)]

TagOf(buf) == Take(buf, StrLen(buf))

\* C6 as the spec words it: with a dec-tagged client the enc server's
\* handshake passes on both sides, with an enc-tagged client it fails and no
\* Message is exchanged.
C6_HandshakeSymmetry ==
    \A c \in Conns :
        /\ (cTag[c] = CLIENT_TAG /\ StartsWith(wIo[c], "rTag", "sTag")) =>
              wErr[c] # "tag"
        /\ (cTag[c] = CLIENT_TAG /\ StartsWith(cIo[c], "sTag", "rTag")) =>
              cErr[c] # "tag"
        /\ cTag[c] = PartnerClientTag =>
              ~HasMessage(cIo[c]) /\ ~HasMessage(wIo[c])

\* C6: the handshake passes exactly between equal tags.  With a dec-tagged
\* client the enc server's worker and the client both end their validate
\* with a mismatch, close, and no Message is sent or received on the
\* connection; with an enc-tagged client a peer that received the other's
\* tag leaves validate without a mismatch and goes on to the Messages.
C6_HandshakeByTag ==
    \A c \in Conns :
        /\ cTag[c] = CLIENT_TAG =>
              /\ ~HasMessage(cIo[c]) /\ ~HasMessage(wIo[c])
              /\ Has(wIo[c], "sTag") =>
                    wPc[c] = "exit" /\ wErr[c] = "tag" /\ closes[c].W = 1
              /\ Has(cIo[c], "rTag") =>
                    cPc[c] = "exit" /\ cErr[c] = "tag" /\ closes[c].C = 1
        /\ cTag[c] = PartnerClientTag =>
              /\ (Has(wIo[c], "sTag") /\ TagOf(wCli[c]) = TagOf(cTag[c])) =>
                    wErr[c] # "tag" /\ wPc[c] \notin {"none", "vRecv", "vSend"}
              /\ (Has(cIo[c], "rTag") /\ TagOf(cSrv[c]) = TagOf(SERVER_TAG)) =>
                    cErr[c] # "tag" /\ cPc[c] \notin {"vSend", "vRecv"}

\* connection 1, enc-tagged client: handshake passed and the three Messages
\* went through; connection 2, dec-tagged client: both peers found the
\* mismatch
C6_Witness ==
    /\ cTag[1] = PartnerClientTag /\ cPc[1] = "exit" /\ cErr[1] = "none"
    /\ Has(cIo[1], "rData") /\ cOut[1] # <<>>
    /\ cTag[2] = CLIENT_TAG /\ cErr[2] = "tag" /\ wErr[2] = "tag"
    /\ cIo[2] = <<"sTag", "rTag">> /\ wIo[2] = <<"rTag", "sTag">>

C8_ExitCodeMapping ==
    /\ lPc = "exit" => lStatus = 1
    /\ \A c \in Conns :
          /\ Gone(wPc[c]) =>
                /\ wStatus[c] \in {0, 1, 2}
                /\ wStatus[c] = 0 <=> wErr[c] = "none"
                /\ wStatus[c] = 2 <=> wErr[c] = "tag"
          /\ Gone(cPc[c]) =>
                /\ cStatus[c] \in {0, 1, 2}
                /\ cStatus[c] = 0 <=> cErr[c] = "none"
                /\ cStatus[c] = 2 <=> cErr[c] = "tag"

\* this step ends worker c by a fatal error: an exit with a non-zero status
\* or a kill by signal
WorkerFails(c) ==
    /\ ~Gone(wPc[c])
    /\ Gone(wPc'[c])
    /\ wStatus'[c] # 0

\* the step leaves the listening process as it was, its listening socket open
ListenerUntouched ==
    /\ UNCHANGED <<lPc, lStatus, lErr, lSock, listenOk, pending>>
    /\ (0 \in listenHolders') = (0 \in listenHolders)

\* the step leaves worker d and its connection as they were
WorkerUntouched(d) ==
    /\ wPc'[d] = wPc[d] /\ wStatus'[d] = wStatus[d] /\ wErr'[d] = wErr[d]
    /\ wCli'[d] = wCli[d] /\ wText'[d] = wText[d] /\ wKey'[d] = wKey[d]
    /\ wResult'[d] = wResult[d] /\ wIo'[d] = wIo[d]
    /\ c2s'[d] = c2s[d] /\ s2c'[d] = s2c[d]
    /\ holders'[d] = holders[d] /\ closes'[d] = closes[d]

\* C9: the step in which a worker ends by a fatal error (mismatch, failed
\* send()/recv(), failed allocation) changes nothing of the listener and
\* nothing of any other worker or its connection, and the listener only ever
\* ends through one of its own error() calls: after a worker's failure it
\* is where it was in its accept loop and the other workers go on.
C9_FailureIsolation ==
    /\ [](lPc = "exit" => lErr \in {"usage", "socket", "bind", "accept", "fork"})
    /\ [][\A c \in Conns :
             WorkerFails(c) =>
                /\ ListenerUntouched
                /\ \A d \in Conns \ {c} : WorkerUntouched(d)]_vars

\* worker 1 has failed; the listener is in its accept loop and worker 2,
\* forked before or after, is past its handshake with its result computed
C9_Witness ==
    /\ wPc[1] = "exit" /\ wStatus[1] \in {1, 2}
    /\ lPc = "accept"
    /\ wPc[2] = "send" /\ wResult[2] = RankTransform(cText[2], cKey[2])

\* C10: on every connection whose client and worker both ran to their
\* successful end, whatever the other connections did meanwhile, the client
\* printed the transform of its own text with its own key; while the client
\* waits for the result the worker holds that client's text, key and their
\* transform; and a worker's text, key and result change only in steps of
\* that worker.
C10_NoCrossTalk ==
    /\ [](\A c \in Conns :
            /\ (cPc[c] = "exit" /\ cErr[c] = "none" /\ Has(cIo[c], "rData")
                  /\ wPc[c] = "exit" /\ wStatus[c] = 0) =>
                  cOut[c] = RankTransform(cText[c], cKey[c])
            /\ (cPc[c] = "recv" /\ wPc[c] = "send") =>
                  /\ wText[c] = cText[c]
                  /\ wKey[c] = cKey[c]
                  /\ wResult[c] = RankTransform(cText[c], cKey[c]))
    /\ [][\A c \in Conns :
             <<wText[c], wKey[c], wResult[c]>>' # <<wText[c], wKey[c], wResult[c]>>
                => WorkerNext(c)]_vars

\* two connections at the same time: the listener has just forked worker 2
\* and not yet closed its copy of that socket, worker 1, forked earlier, is
\* still alive with its result; client 2 already printed its own result
C10_Witness ==
    /\ lPc = "close" /\ lSock = 2
    /\ wPc[1] = "send" /\ wResult[1] = RankTransform(cText[1], cKey[1])
    /\ cPc[2] = "exit" /\ cErr[2] = "none" /\ wStatus[2] = 0
    /\ cOut[2] = RankTransform(cText[2], cKey[2])
    /\ cOut[2] # wResult[1]

\* C11: a client whose key file is shorter than its text file never gets
\* past the length check: it ends there through error(), it never creates a
\* socket or connects, and no byte of its connection is ever sent or
\* received by anyone.
C11_KeyTooShortRejected ==
    \A c \in Conns :
        (cPc[c] \notin {"args", "load"} /\ StrLen(cText[c]) > StrLen(cKey[c])) =>
            /\ cPc[c] \in {"check", "exit"}
            /\ cPc[c] = "exit" => cErr[c] = "keyshort"
            /\ cIo[c] = <<>> /\ wIo[c] = <<>>
            /\ c2s[c] = <<>> /\ s2c[c] = <<>>
            /\ ~Queued(c) /\ ~Accepted(c)

\* client 1 was rejected for its short key while client 2, with a good key,
\* is connected and served
C11_Witness ==
    /\ cPc[1] = "exit" /\ cErr[1] = "keyshort"
    /\ Len(cText[1]) = 2 /\ Len(cKey[1]) = 1
    /\ cIo[1] = <<>>
    /\ Has(cIo[2], "sData")

\* s is an initial part of t
IsPrefix(s, t) == Len(s) <= Len(t) /\ s = SubSeq(t, 1, Len(s))

\* the log without its first n events
LogAfter(log, n) == SubSeq(log, n + 1, Len(log))

\* C12: on every connection the Messages are, in this order, the text and
\* the key from the client and then one result from the worker; the worker
\* sends the result only when it holds the whole text and the whole key the
\* client sent; after the result both sides have closed and nothing follows.
C12_OneShotOrder ==
    \A c \in Conns :
        /\ HasMessage(cIo[c]) =>
              IsPrefix(LogAfter(cIo[c], 2),
                       <<"sLen", "sData", "sLen", "sData", "rLen", "rData">>)
        /\ HasMessage(wIo[c]) =>
              IsPrefix(LogAfter(wIo[c], 2),
                       <<"rLen", "rData", "rLen", "rData", "sLen", "sData">>)
        /\ Has(wIo[c], "sLen") =>
              /\ Count(cIo[c], "sData") = 2
              /\ wText[c] = cText[c] /\ wKey[c] = cKey[c]
        /\ (wPc[c] = "exit" /\ wStatus[c] = 0) => closes[c].W = 1
        /\ (cPc[c] = "exit" /\ Has(cIo[c], "rData")) => closes[c].C = 1

-----------------------------------------------------------------------------
(* Properties of SpecFrame *)

\* C13: while sendData is in its loop the index i counts the payload bytes
\* the transport has accepted (the next chunk starts at the first byte not
\* yet accepted), and when sendData has returned the transport has accepted,
\* after what it took of the prefix, each payload byte once and in order.
C13_PartialWritesAccumulate ==
    /\ fSPc = "loop" =>
          \E k \in 1..INT_SIZE : Len(fAccepted) = k + fSI
    /\ fSPc = "done" =>
          \E k \in 1..INT_SIZE :
             fAccepted = Take(IntBytes(StrLen(fData)), k) \o fData

\* C14: when receive() has returned it has taken exactly len payload bytes
\* from the stream and holds them in order in result[0..len-1]; in every
\* iteration of its loop the bytes stored so far are i, and i plus the size
\* it asks for stays within len, the size being at most BUFFER_SIZE - 1.
C14_ExactLengthReceive ==
    /\ fRPc = "done" =>
          /\ fRI = fRLen
          /\ Len(fRBuf) = fRLen
    /\ (fRPc = "loop" /\ fRI < fRLen) =>
          /\ Len(fRBuf) = fRI
          /\ receive_size(fRLen, fRI) >= 1
          /\ receive_size(fRLen, fRI) <= BUFFER_SIZE - 1
          /\ fRI + receive_size(fRLen, fRI) <= fRLen

\* C15: receive() never goes on with its loop after a recv() that returned 0
\* short of len bytes (charsRead = 0 with bytes already stored and more to
\* come), it never returns with fewer than len bytes stored, and when it
\* ends the process the status is 1.
C15_PrematureCloseFatal ==
    /\ ~(fRPc = "loop" /\ fRI > 0 /\ fRI < fRLen /\ fRRead = 0)
    /\ fRPc = "done" => fRI >= fRLen
    /\ fRPc = "exit" => fRStatus = 1

-----------------------------------------------------------------------------
(* Properties of Spec: the listener and the sockets *)

\* C16: the listener is in its accept loop only on a socket whose bind()
\* and listen() both succeeded, and a failed bind() or accept() has ended
\* the listening process with status 1.
C16_StartupFailuresFatal ==
    /\ lPc \in {"accept", "fork", "close"} => listenOk
    /\ lErr \in {"bind", "accept"} => lPc = "exit" /\ lStatus = 1

\* C17 as the spec words it: every worker that has terminated, on whatever
\* path, has called close() on its connection socket exactly once, and the
\* listener closes its copy at most once.
C17_ExplicitCloseEveryPath ==
    \A c \in Conns :
        /\ closes[c].W <= 1 /\ closes[c].L <= 1
        /\ Gone(wPc[c]) => closes[c].W = 1

\* C17: no process calls close() twice on a connection socket.  A worker
\* that ends after its result went out or after a tag mismatch has called
\* close() once; a worker that ends through a failed send(), recv() or
\* allocation has not called close() at all and its descriptor goes with the
\* process.  Either way a terminated worker holds the socket no more and a
\* running one holds it.  The listener closes its own copy once, after the
\* fork, and that leaves the worker's copy open.
C17_SocketClosedOnce ==
    \A c \in Conns :
        /\ closes[c].W <= 1 /\ closes[c].L <= 1
        /\ (wPc[c] = "exit" /\ wErr[c] \in {"none", "tag"}) => closes[c].W = 1
        /\ (Gone(wPc[c]) /\ wErr[c] \in {"read", "write", "alloc", "signal"}) =>
              closes[c].W = 0
        /\ Gone(wPc[c]) => c \notin holders[c]
        /\ (wPc[c] # "none" /\ ~Gone(wPc[c])) => c \in holders[c]
        /\ closes[c].L = 1 => wPc[c] # "none" /\ 0 \notin holders[c]

\* worker 1 ended after its result and closed once, the listener closed its
\* copy of both; worker 2 ended on a failed send() or recv() without close()
C17_Witness ==
    /\ wPc[1] = "exit" /\ wErr[1] = "none" /\ closes[1].W = 1 /\ closes[1].L = 1
    /\ wPc[2] = "exit" /\ wErr[2] \in {"read", "write"}
    /\ closes[2].W = 0 /\ closes[2].L = 1 /\ holders[2] = {}

\* the steps of the listener in which no call fails
ListenerProgress ==
    \/ main_args
    \/ main_socket
    \/ main_bind
    \/ main_listen
    \/ main_accept
    \/ main_fork
    \/ main_close

\* C18: a running listener that is not at accept() always has its next
\* step at hand, whatever the workers do; at accept() it waits for a pending
\* connection and for nothing else; and no step of the listener sends or
\* receives on a connection or changes a worker other than by forking it.
C18_ListenerNeverWaits ==
    /\ [](lPc \notin {"exit", "accept"} => ENABLED ListenerProgress)
    /\ [](lPc = "accept" => (ENABLED main_accept <=> (listenOk /\ pending # <<>>)))
    /\ [][ListenerNext =>
            /\ UNCHANGED <<c2s, s2c, wStatus, wErr, wCli, wText, wKey, wResult, wIo>>
            /\ \A c \in Conns : wPc'[c] # wPc[c] => main_fork /\ c = lSock]_vars

\* worker 1 is blocked in receive() on a client that stalls before sending
\* its text; the listener has closed its copy, gone back to accept() and
\* taken the next connection
C18_Witness ==
    /\ wPc[1] = "recvText" /\ c2s[1] = <<>> /\ cPc[1] = "sendText"
    /\ closes[1].L = 1
    /\ lPc = "fork" /\ lSock = 2

\* C19: while a worker is handshaking, receiving, transforming or sending,
\* no process other than the listener holds the listening socket open.
C19_WorkerReleasesListenSock ==
    \A c \in Conns :
        wPc[c] \in {"vRecv", "vSend", "recvText", "recvKey", "transform", "send"} =>
            listenHolders \subseteq {0}

\* C20: when a worker is about to run, or has run, the loop of
\* handleOtpComm, the key it received is at least as long as the text it
\* received: every index i < strlen(text) at which key[i] is read lies
\* before the key's terminator.
C20_KeyIndexInBounds ==
    \A c \in Conns :
        wPc[c] \in {"transform", "send"} => StrLen(wText[c]) <= StrLen(wKey[c])

-----------------------------------------------------------------------------
(* SpecConn: one connection, from the return of connect() in the client    *)
(* and of fork() in the child to the end of both processes, one send() or  *)
(* recv() call per step. The transport is a reliable byte stream in each   *)
(* direction: every byte sent is delivered, in order, to the socket of the *)
(* other end; no call fails while that end lives, and malloc gives every   *)
(* buffer whose size is a valid size. A blocking send() returns when all   *)
(* its bytes are queued; recv() returns the bytes that have arrived, up to *)
(* the count asked for. Both processes and the transport are scheduled     *)
(* fairly.                                                                 *)

Procs == {"C", "W"}

Peer(p) == IF p = "C" THEN "W" ELSE "C"

\* bytes a socket holds in flight and unread: a send() that finds less room
\* than it needs blocks
SockBuf == 4

\* what wait() reports for a process killed by SIGPIPE
BrokenPipeStatus == 128 + 13

\* the client's text and key
ConnInputs ==
    { <<(<<65, 90>>), (<<SP, 65, 66>>)>>,
      <<(<<66>>), (<<90>>)>> }

\* char client[4] in dec_client.c, char server[4] in enc_server.c
OwnTag(p) == IF p = "C" THEN nTag ELSE SERVER_TAG

SendCalls == {"sendText", "sendKey", "send"}

RecvCalls == {"recvText", "recvKey", "recv"}

\* the argument of the sendData call a process is in
SendArg(p) ==
    IF nPc[p] = "sendText" THEN nText
    ELSE IF nPc[p] = "sendKey" THEN nKey
    ELSE nResult

\* send() of n bytes by p returns: the socket has room for them (or the
\* peer is gone: see conn_send_broken)
CanSend(p, n) ==
    \/ Gone(nPc[Peer(p)])
    \/ Len(nWire[Peer(p)]) + Len(nInbox[Peer(p)]) + n <= SockBuf

\* the bytes join those in flight; a peer that is gone takes none
Sent(p, bytes) ==
    IF Gone(nPc[Peer(p)]) THEN nWire
    ELSE [nWire EXCEPT ![Peer(p)] = @ \o bytes]

\* recv() by p returns 0: the peer is gone and everything it sent was read
AtEof(p) == nInbox[p] = <<>> /\ nWire[p] = <<>> /\ Gone(nPc[Peer(p)])

\* p is in a send() call
InSend(p) ==
    \/ nPc[p] = "vSend"
    \/ nPc[p] \in SendCalls /\ nSub[p] = "prefix"
    \/ nPc[p] \in SendCalls /\ nSub[p] = "loop" /\ nI[p] < nLen[p]

\* the count of bytes that call sends: a tag, a length, or the next chunk
SendSize(p) ==
    IF nPc[p] \in SendCalls /\ nSub[p] = "loop"
    THEN Min(nLen[p] - nI[p], BUFFER_SIZE)
    ELSE INT_SIZE

\* p is in a recv() call
InRecv(p) ==
    \/ nPc[p] = "vRecv"
    \/ nPc[p] \in RecvCalls /\ nSub[p] = "prefix"
    \/ nPc[p] \in RecvCalls /\ nSub[p] = "loop" /\ nI[p] < nLen[p]

connFixed == <<nSplit, nTag, nText, nKey, cipherVars, frameVars, protoVars>>

ConnInit ==
    /\ CipherIdle
    /\ FrameIdle
    /\ ProtoIdle
    /\ nSplit \in BOOLEAN
    /\ nTag \in ClientPrograms
    /\ \E f \in ConnInputs : nText = f[1] /\ nKey = f[2]
    /\ nPc = [p \in Procs |-> IF p = "C" THEN "vSend" ELSE "vRecv"]
    /\ nSub = [p \in Procs |-> "prefix"]
    /\ nStatus = [p \in Procs |-> NoStatus]
    /\ nLen = [p \in Procs |-> 0]
    /\ nI = [p \in Procs |-> 0]
    /\ nBuf = [p \in Procs |-> <<>>]
    /\ nPeerTag = [p \in Procs |-> <<>>]
    /\ nGot = [p \in Procs |-> <<>>]
    /\ nResult = <<>>
    /\ nWire = [p \in Procs |-> <<>>]
    /\ nInbox = [p \in Procs |-> <<>>]

\* exit(status), or return status from main
conn_exit(p, status) ==
    /\ nPc' = [nPc EXCEPT ![p] = "exit"]
    /\ nStatus' = [nStatus EXCEPT ![p] = status]
    /\ UNCHANGED <<nSub, connFixed>>

\* the process is killed by a signal
conn_killed(p, status) ==
    /\ nPc' = [nPc EXCEPT ![p] = "crash"]
    /\ nStatus' = [nStatus EXCEPT ![p] = status]
    /\ UNCHANGED <<nSub, connFixed>>

\* the next call of main, of validate's caller or of handleOtpComm starts
conn_goto(p, pc) ==
    /\ nPc' = [nPc EXCEPT ![p] = pc]
    /\ nSub' = [nSub EXCEPT ![p] = "prefix"]
    /\ UNCHANGED <<nStatus, connFixed>>

\* the next statement of sendData or receive
conn_sub(p, sub) ==
    /\ nSub' = [nSub EXCEPT ![p] = sub]
    /\ UNCHANGED <<nPc, nStatus, connFixed>>

\* the transport hands bytes in flight to the socket of p: every byte in
\* flight, or some of them when it may split
conn_deliver(p) ==
    /\ nWire[p] # <<>>
    /\ \E k \in 1..Len(nWire[p]) :
          /\ nSplit \/ k = Len(nWire[p])
          /\ nInbox' = [nInbox EXCEPT ![p] = @ \o Take(nWire[p], k)]
          /\ nWire' = [nWire EXCEPT ![p] = Drop(@, k)]
    /\ UNCHANGED <<nPc, nSub, nStatus, nLen, nI, nBuf, nPeerTag, nGot, nResult,
                   connFixed>>

\* validate: send() of the own tag (dec_client.c:137, enc_server.c:144); in
\* the worker strcmp follows (enc_server.c:148-151)
conn_validate_send(p) ==
    /\ nPc[p] = "vSend"
    /\ CanSend(p, INT_SIZE)
    /\ nWire' = Sent(p, OwnTag(p))
    /\ IF p = "C" THEN conn_goto(p, "vRecv")
       ELSE IF StrCmp(nPeerTag[p], SERVER_TAG) # 0
            THEN conn_exit(p, EXIT_MISMATCH)
            ELSE conn_goto(p, "recvText")
    /\ UNCHANGED <<nLen, nI, nBuf, nPeerTag, nGot, nResult, nInbox>>

\* validate: recv() of the peer's tag into a zeroed char[4]
\* (enc_server.c:140, dec_client.c:140); in the client strcmp follows
\* (dec_client.c:143-146)
conn_validate_recv(p) ==
    /\ nPc[p] = "vRecv"
    /\ nInbox[p] # <<>> \/ AtEof(p)
    /\ LET got == Take(nInbox[p], Min(INT_SIZE, Len(nInbox[p])))
       IN  /\ nPeerTag' = [nPeerTag EXCEPT ![p] = Filled(got)]
           /\ nInbox' = [nInbox EXCEPT ![p] = Drop(@, Len(got))]
           /\ IF p = "W" THEN conn_goto(p, "vSend")
              ELSE IF StrCmp(nTag, Filled(got)) # 0
                   THEN conn_exit(p, EXIT_MISMATCH)
                   ELSE conn_goto(p, "sendText")
    /\ UNCHANGED <<nLen, nI, nBuf, nGot, nResult, nWire>>

\* a send() to a peer that is gone raises SIGPIPE, which nothing handles
conn_send_broken(p) ==
    /\ InSend(p)
    /\ Gone(nPc[Peer(p)])
    /\ conn_killed(p, BrokenPipeStatus)
    /\ UNCHANGED <<nLen, nI, nBuf, nPeerTag, nGot, nResult, nWire, nInbox>>

\* a recv() on a connection the peer has reset returns -1: error(1, ...)
conn_recv_reset(p) ==
    /\ InRecv(p)
    /\ AtEof(p)
    /\ conn_exit(p, EXIT_TRANSPORT)
    /\ UNCHANGED <<nLen, nI, nBuf, nPeerTag, nGot, nResult, nWire, nInbox>>

\* sendData, lines 77-79: len = strlen(data), send(sock, &len, sizeof(len), 0)
conn_sendData_prefix(p) ==
    /\ nPc[p] \in SendCalls
    /\ nSub[p] = "prefix"
    /\ CanSend(p, INT_SIZE)
    /\ nLen' = [nLen EXCEPT ![p] = StrLen(SendArg(p))]
    /\ nI' = [nI EXCEPT ![p] = 0]
    /\ nWire' = Sent(p, IntBytes(StrLen(SendArg(p))))
    /\ conn_sub(p, "loop")
    /\ UNCHANGED <<nBuf, nPeerTag, nGot, nResult, nInbox>>

\* sendData, lines 83-88: one iteration
conn_sendData_chunk(p) ==
    /\ nPc[p] \in SendCalls
    /\ nSub[p] = "loop"
    /\ nI[p] < nLen[p]
    /\ LET remaining == nLen[p] - nI[p]
           charsSent == IF remaining < BUFFER_SIZE THEN remaining ELSE BUFFER_SIZE
       IN  /\ CanSend(p, charsSent)
           /\ nWire' = Sent(p, SubSeq(SendArg(p), nI[p] + 1, nI[p] + charsSent))
           /\ nI' = [nI EXCEPT ![p] = @ + charsSent]
    /\ conn_sub(p, "loop")
    /\ UNCHANGED <<nLen, nBuf, nPeerTag, nGot, nResult, nInbox>>

\* sendData returns (line 83, i < len is false). The client goes on to its
\* next call (dec_client.c:225-227); the worker frees, closes and exits
\* (enc_server.c:179-182, 232)
conn_sendData_return(p) ==
    /\ nPc[p] \in SendCalls
    /\ nSub[p] = "loop"
    /\ ~(nI[p] < nLen[p])
    /\ IF nPc[p] = "sendText" THEN conn_goto(p, "sendKey")
       ELSE IF nPc[p] = "sendKey" THEN conn_goto(p, "recv")
       ELSE conn_exit(p, EXIT_OK)
    /\ UNCHANGED <<nLen, nI, nBuf, nPeerTag, nGot, nResult, nWire, nInbox>>

\* receive, lines 103-105: recv(sock, &len, sizeof(len), 0) returned the
\* bytes that had arrived (none at end of stream); the bytes of len it did
\* not write keep what the stack held
conn_receive_prefix(p) ==
    /\ nPc[p] \in RecvCalls
    /\ nSub[p] = "prefix"
    /\ nInbox[p] # <<>> \/ AtEof(p)
    /\ LET got == Take(nInbox[p], Min(INT_SIZE, Len(nInbox[p])))
       IN  /\ \E junk \in [1..(INT_SIZE - Len(got)) -> UninitBytes] :
                 nLen' = [nLen EXCEPT ![p] = BytesInt(got \o junk)]
           /\ nInbox' = [nInbox EXCEPT ![p] = Drop(@, Len(got))]
    /\ conn_sub(p, "alloc")
    /\ UNCHANGED <<nI, nBuf, nPeerTag, nGot, nResult, nWire>>

\* receive, lines 108-110: malloc(len + 1). len + 1 is converted to size_t:
\* a negative value asks for more than the address space and gets NULL
conn_receive_malloc(p) ==
    /\ nPc[p] \in RecvCalls
    /\ nSub[p] = "alloc"
    /\ IF nLen[p] + 1 < 0
       THEN /\ conn_exit(p, EXIT_TRANSPORT)
            /\ UNCHANGED <<nI, nBuf>>
       ELSE /\ conn_sub(p, "loop")
            /\ nI' = [nI EXCEPT ![p] = 0]
            /\ nBuf' = [nBuf EXCEPT ![p] = <<>>]
    /\ UNCHANGED <<nLen, nPeerTag, nGot, nResult, nWire, nInbox>>

\* receive, lines 114-119: one iteration, recv() returned k > 0
conn_receive_chunk(p) ==
    /\ nPc[p] \in RecvCalls
    /\ nSub[p] = "loop"
    /\ nI[p] < nLen[p]
    /\ nInbox[p] # <<>>
    /\ LET k == Min(receive_size(nLen[p], nI[p]), Len(nInbox[p]))
       IN  /\ nBuf' = [nBuf EXCEPT ![p] = @ \o Take(nInbox[p], k)]
           /\ nInbox' = [nInbox EXCEPT ![p] = Drop(@, k)]
           /\ nI' = [nI EXCEPT ![p] = @ + k]
    /\ conn_sub(p, "loop")
    /\ UNCHANGED <<nLen, nPeerTag, nGot, nResult, nWire>>

\* receive, lines 114-119: recv() returns 0 at end of stream, i += 0, and
\* the loop runs again with the same i for ever
conn_receive_chunk_eof(p) ==
    /\ nPc[p] \in RecvCalls
    /\ nSub[p] = "loop"
    /\ nI[p] < nLen[p]
    /\ AtEof(p)
    /\ nPc' = [nPc EXCEPT ![p] = "spin"]
    /\ UNCHANGED <<nSub, nStatus, connFixed>>
    /\ UNCHANGED <<nLen, nI, nBuf, nPeerTag, nGot, nResult, nWire, nInbox>>

\* what the caller of receive does with the string: handleOtpComm keeps
\* text, then key (enc_server.c:163-164); the client prints it, closes and
\* returns 0 (dec_client.c:227-231)
conn_receive_returns(p, data) ==
    /\ nGot' = [nGot EXCEPT ![p] = Append(@, data)]
    /\ IF nPc[p] = "recvText" THEN conn_goto(p, "recvKey")
       ELSE IF nPc[p] = "recvKey" THEN conn_goto(p, "transform")
       ELSE conn_exit(p, EXIT_OK)

\* receive, lines 121-122: result[len] = '\0'; return result
conn_receive_return(p) ==
    /\ nPc[p] \in RecvCalls
    /\ nSub[p] = "loop"
    /\ ~(nI[p] < nLen[p])
    /\ nLen[p] >= 0
    /\ conn_receive_returns(p, nBuf[p])
    /\ UNCHANGED <<nLen, nI, nBuf, nPeerTag, nResult, nWire, nInbox>>

\* receive, line 121 with len = -1: malloc(0) gave a buffer and result[-1]
\* is written before it: the process is killed, or carries on with a string
\* of whatever the heap holds
conn_receive_return_wild(p) ==
    /\ nPc[p] \in RecvCalls
    /\ nSub[p] = "loop"
    /\ nLen[p] < 0
    /\ \/ conn_killed(p, KilledStatus) /\ UNCHANGED nGot
       \/ \E d \in SeqsUpTo(UninitBytes \ {0}, 1) : conn_receive_returns(p, d)
    /\ UNCHANGED <<nLen, nI, nBuf, nPeerTag, nResult, nWire, nInbox>>

\* handleOtpComm, lines 165-175: the loop over strlen(text), key[i] read at
\* the same index whatever the key's length
conn_transform ==
    /\ nPc["W"] = "transform"
    /\ LET text == Take(nGot["W"][1], StrLen(nGot["W"][1]))
           key == nGot["W"][2]
       IN  \E heap \in [(Len(key) + 2)..Len(text) -> UninitBytes] :
              nResult' = Encrypt(text, key, heap)
    /\ conn_goto("W", "send")
    /\ UNCHANGED <<nLen, nI, nBuf, nPeerTag, nGot, nWire, nInbox>>

\* a step of process p
ConnProc(p) ==
    \/ conn_validate_send(p)
    \/ conn_validate_recv(p)
    \/ conn_send_broken(p)
    \/ conn_recv_reset(p)
    \/ conn_sendData_prefix(p)
    \/ conn_sendData_chunk(p)
    \/ conn_sendData_return(p)
    \/ conn_receive_prefix(p)
    \/ conn_receive_malloc(p)
    \/ conn_receive_chunk(p)
    \/ conn_receive_chunk_eof(p)
    \/ conn_receive_return(p)
    \/ conn_receive_return_wild(p)
    \/ p = "W" /\ conn_transform

ConnNext ==
    \/ \E p \in Procs : conn_deliver(p)
    \/ \E p \in Procs : conn_validate_send(p)
    \/ \E p \in Procs : conn_validate_recv(p)
    \/ \E p \in Procs : conn_send_broken(p)
    \/ \E p \in Procs : conn_recv_reset(p)
    \/ \E p \in Procs : conn_sendData_prefix(p)
    \/ \E p \in Procs : conn_sendData_chunk(p)
    \/ \E p \in Procs : conn_sendData_return(p)
    \/ \E p \in Procs : conn_receive_prefix(p)
    \/ \E p \in Procs : conn_receive_malloc(p)
    \/ \E p \in Procs : conn_receive_chunk(p)
    \/ \E p \in Procs : conn_receive_chunk_eof(p)
    \/ \E p \in Procs : conn_receive_return(p)
    \/ \E p \in Procs : conn_receive_return_wild(p)
    \/ conn_transform

\* the scheduler runs every process that can take a step, and the transport
\* delivers every byte in flight
ConnFair ==
    /\ \A p \in Procs : WF_vars(ConnProc(p))
    /\ \A p \in Procs : WF_vars(conn_deliver(p))

SpecConn == ConnInit /\ [][ConnNext]_vars /\ ConnFair

-----------------------------------------------------------------------------
(* Properties of SpecConn *)

\* the client's tag is the one the server expects
TagsMatch == StrCmp(nTag, SERVER_TAG) = 0

Terminated == Gone(nPc["C"]) /\ Gone(nPc["W"])

\* p waits in recv() and no byte is in flight or unread for it: only a
\* send() of its peer can wake it
WaitsInRecv(p) ==
    InRecv(p) /\ nInbox[p] = <<>> /\ nWire[p] = <<>> /\ ~Gone(nPc[Peer(p)])

\* p waits in send() for room that only a recv() of its peer can make
WaitsInSend(p) == InSend(p) /\ ~CanSend(p, SendSize(p))

\* how a connection ends: with matching tags the worker has received text
\* and key and sent the result, the client has received it, both exit with
\* 0; with different tags both exit with 2 having received nothing more
ConnOutcome ==
    IF TagsMatch
    THEN /\ nStatus = [p \in Procs |-> EXIT_OK]
         /\ nGot["W"] = <<nText, nKey>>
         /\ nGot["C"] = <<Encrypt(nText, nKey, <<>>)>>
    ELSE /\ nStatus = [p \in Procs |-> EXIT_MISMATCH]
         /\ nGot = [p \in Procs |-> <<>>]

(* C21: every connection terminates. Under a reliable in-order transport   *)
(* that delivers every sent byte, fair scheduling and a client that        *)
(* follows the protocol, the worker and the client both terminate, after   *)
(* the result was sent and received when the tags match and right after    *)
(* the tag exchange when they differ; and in no reachable state do the two *)
(* wait for each other, both in recv() or both in send().                  *)
C21_EveryConnectionTerminates ==
    /\ <>Terminated
    /\ [](Terminated => ConnOutcome)
    /\ []~(WaitsInRecv("C") /\ WaitsInRecv("W"))
    /\ []~(WaitsInSend("C") /\ WaitsInSend("W"))

\* the same when the transport hands over every send() whole: it holds
ConnWholeDeliveryTerminates ==
    /\ <>(nSplit \/ Terminated)
    /\ [](~nSplit => (Terminated => ConnOutcome))
    /\ [](~nSplit => ~(WaitsInRecv("C") /\ WaitsInRecv("W")))
    /\ [](~nSplit => ~(WaitsInSend("C") /\ WaitsInSend("W")))

=============================================================================
